---- MODULE Spec2Model ----
(***************************************************************************)
(* Session synchronisation of the Mova collaborative client.               *)
(*                                                                         *)
(* Each client is one App component (src/types.ts, the variant with the    *)
(* Firestore listener) with its CreativeCanvas editor                      *)
(* (src/components/CreativeCanvas.tsx).  The clients share one document    *)
(* store.  A store write changes the stored document at the moment it is   *)
(* issued and queues one snapshot for every subscriber of that document;   *)
(* the writer's promise settles in a later step, after the writer's own    *)
(* listener has been called for the write.                                 *)
(*                                                                         *)
(* Text is a sequence of characters, so that concatenation and prefixes    *)
(* are computed, not assumed.  Timestamps of messages are left out.        *)
(***************************************************************************)
EXTENDS Integers, Sequences, FiniteSets, TLC

(* ------------------------------ bounds -------------------------------- *)
MaxSends == 1
MaxChunks == 2
MaxEdits == 2
MaxResets == 1
MaxInbox == 2
MaxFail == 1
MaxSwitches == 1
MaxViews == 2
TickStep == 250

(* ------------------------- program constants -------------------------- *)
QuietInterval == 500

Clients == {1, 2}
Modes == {"GENERAL", "SCRIPT", "IMAGE_PROMPT"}
DocModes == {"SCRIPT", "STORY"}
Views == {"chat", "canvas"}
Authors == {1}
EditTexts == <<"a", "ab", "abc">>
StreamChunks == <<<<"H", "e">>, <<"y">>, <<"!">>>>
SendInputs == {[text |-> <<"h", "i">>, att |-> FALSE], [text |-> <<>>, att |-> TRUE]}
CanvasActions == {"REWRITE", "CONTINUE"}
ImageResults == {[imageUrl |-> "img", textContent |-> <<>>], [imageUrl |-> "", textContent |-> <<"t">>]}

DefaultTitle == "New Creative Session"
RefineText == <<"R", "e", "f">>
RefinementComplete == <<"d", "o", "n", "e">>
ErrorText == <<"E", "r", "r">>

(* ------------------------------ state --------------------------------- *)
VARIABLES
  user,          \* user[c]: the client is signed in
  session,       \* session[c]: the ChatSession held in React state
  isLoading,     \* isLoading[c]
  syncStatus,    \* syncStatus[c]: "idle", "syncing" or "synced"
  viewMode,      \* viewMode[c]: "chat" or "canvas"
  skipNextSync,  \* skipNextSyncRef.current of client c
  localContent,  \* localContent of the mounted CreativeCanvas ("" when unmounted)
  timers,        \* timers[c]: pending setTimeout callbacks of handleTextChange
  sub,           \* sub[c]: the listener effect's subscription and its closure
  inbox,         \* inbox[c]: snapshots queued for the onSnapshot callback
  store,         \* store[sid]: the document sessions/<sid>
  pipes,         \* pipes[c]: the handleSendMessage calls in progress
  modeOps,       \* modeOps[c]: the switchMode calls awaiting updateDoc
  canvasOps,     \* canvasOps[c]: the syncCanvasToCloud calls awaiting updateDoc
  sends,         \* sends[c]: number of handleSendMessage calls made (numbers the uuids)
  resets,        \* resets[c]: number of resetSession calls made (numbers the uuids)
  editNo,        \* editNo[c]: number of handleTextChange calls made
  switches,      \* switches[c]: number of switchMode calls made
  views,         \* views[c]: number of clicks on the view tabs
  plan,          \* the gestures the users will make at most (never changes)
  writes,        \* writes[c]: number of writes of c the store has accepted
  fails, rejected,         \* number of writes to an existing document that were rejected
  lastNote,      \* history: what the last snapshot delivered to c did
  arms,          \* history: times the flag was armed since it was last consumed
  armSid,        \* history: the session id of the write that last armed the flag
  sinceArm,      \* history: snapshots delivered to c since the flag was last armed
  sinceEdit,     \* history: time since c's last edit, capped at QuietInterval
  superseded,    \* history: edits of c followed by another edit within the interval
  abandoned,     \* history: the generations of c that were under way at a reset
  seeded         \* history: seeded[sid]: number of setDoc calls made for sessions/<sid>

vars == <<user, session, isLoading, syncStatus, viewMode, skipNextSync,
          localContent, timers, sub, inbox, store, pipes, modeOps, canvasOps,
          sends, resets, editNo, switches, views, plan, writes, fails, rejected,
          lastNote, arms, armSid, sinceArm, sinceEdit, superseded, abandoned, seeded>>

(* ------------------------------ values -------------------------------- *)
NoSid == <<0, 0>>
InitialSid(c) == <<c, 0>>
SessionIds == Clients \X (0..MaxResets)

NoDoc == [exists |-> FALSE, title |-> "", currentMode |-> "", canvasContent |-> "", messages |-> <<>>]
NoSub == [sid |-> NoSid, title |-> "", currentMode |-> "", canvasContent |-> ""]
NoNote == [kind |-> "none", by |-> 0, n |-> 0, kept |-> TRUE, applied |-> TRUE, arms |-> 0]

NewSession(sid) ==
  [id |-> sid, title |-> DefaultTitle, messages |-> <<>>, currentMode |-> "GENERAL", canvasContent |-> ""]

Min(a, b) == IF a < b THEN a ELSE b

RECURSIVE Flatten(_)
Flatten(ss) == IF ss = <<>> THEN <<>> ELSE Head(ss) \o Flatten(Tail(ss))

IsPrefix(a, b) == Len(a) <= Len(b) /\ SubSeq(b, 1, Len(a)) = a

Ids(msgs) == {msgs[i].id : i \in 1..Len(msgs)}

\* the ids of a appear in b, in the same relative order
RECURSIVE IsSubseqById(_, _)
IsSubseqById(a, b) ==
  IF a = <<>> THEN TRUE
  ELSE IF b = <<>> THEN FALSE
  ELSE IF Head(a).id = Head(b).id THEN IsSubseqById(Tail(a), Tail(b))
  ELSE IsSubseqById(a, Tail(b))

Message(id, role, content, sid, imageUrl) ==
  [id |-> id, role |-> role, content |-> content, sess |-> sid, imageUrl |-> imageUrl]

(* ----------------------------- the store ------------------------------ *)
Subscribers(sid) == {d \in Clients : sub[d].sid = sid}
Room(inb, sid) == \A d \in Subscribers(sid) : Len(inb[d]) < MaxInbox

\* the outcomes of updateDoc: it rejects when the document does not exist
Outcomes(sid) ==
  IF ~store[sid].exists THEN {FALSE}
  ELSE IF ~Room(inbox, sid) THEN {}
  ELSE IF fails < plan.fails THEN {TRUE, FALSE} ELSE {TRUE}

\* every subscriber of the document is sent the new snapshot; w numbers the
\* writes of the writer
Notify(inb, sid, doc, by, w) ==
  [d \in Clients |->
     IF sub[d].sid = sid THEN Append(inb[d], [doc |-> doc, by |-> by, w |-> w, sid |-> sid]) ELSE inb[d]]

updateDoc(c, sid, doc, ok) ==
  /\ store' = IF ok THEN [store EXCEPT ![sid] = doc] ELSE store
  /\ inbox' = IF ok THEN Notify(inbox, sid, doc, c, writes[c] + 1) ELSE inbox
  /\ writes' = IF ok THEN [writes EXCEPT ![c] = @ + 1] ELSE writes
  /\ fails' = IF ~ok /\ store[sid].exists THEN fails + 1 ELSE fails
  /\ rejected' = IF ok THEN rejected ELSE rejected \cup {c}

\* the listener of the writer runs on its own write before the promise of
\* that write resolves: write w of c can settle once its snapshot has left
\* c's queue
EchoSeen(c, w) == \A i \in 1..Len(inbox[c]) : ~(inbox[c][i].by = c /\ inbox[c][i].w <= w)

(* ------------------------- CreativeCanvas ----------------------------- *)
Mounted(sess, vm) == sess.messages # <<>> /\ vm = "canvas" /\ sess.currentMode \in DocModes

\* what a render of client c with the new session and view does to its editor:
\* mount (useState(content)), unmount, and the effect on [content] of lines 19-23
CanvasContent(c, sess, vm) ==
  LET was == Mounted(session[c], viewMode[c])
      now == Mounted(sess, vm)
      content == sess.canvasContent
  IN  IF ~now THEN ""
      ELSE IF ~was THEN content
      ELSE IF content # session[c].canvasContent /\ content # localContent[c] THEN content
      ELSE localContent[c]

\* an unmounted editor leaves its timer running: nothing clears it
CanvasTimers(c, sess, vm) ==
  IF Mounted(session[c], viewMode[c]) /\ ~Mounted(sess, vm)
  THEN {[t EXCEPT !.live = FALSE] : t \in timers[c]}
  ELSE timers[c]

Render(c, sess, vm) ==
  /\ localContent' = [localContent EXCEPT ![c] = CanvasContent(c, sess, vm)]
  /\ timers' = [timers EXCEPT ![c] = CanvasTimers(c, sess, vm)]

(* ------------------------------ Init ---------------------------------- *)
\* what the users do is bounded by a plan: who signs in, and how many
\* gestures of each kind each of them makes, and how many writes to an
\* existing document the store rejects
Gestures(login, s, w, v, e, r, f) ==
  [login |-> login, sends |-> s, switches |-> w, views |-> v, edits |-> e, resets |-> r,
   fails |-> f]

Plans ==
  { Gestures({1}, <<MaxSends, 0>>, <<MaxSwitches, 0>>, <<MaxViews, 0>>, <<MaxEdits, 0>>, <<0, 0>>, 0),
    Gestures({1}, <<MaxSends, 0>>, <<0, 0>>, <<0, 0>>, <<0, 0>>, <<MaxResets, 0>>, MaxFail),
    Gestures({1, 2}, <<MaxSends, MaxSends>>, <<0, 0>>, <<0, 0>>, <<0, 0>>, <<0, 0>>, 0),
    Gestures({1, 2}, <<0, MaxSends>>, <<MaxSwitches, 0>>, <<0, 0>>, <<1, 0>>, <<0, 0>>, 0),
    Gestures({1}, <<MaxSends + 1, 0>>, <<MaxSwitches, 0>>, <<0, 0>>, <<0, 0>>, <<0, 0>>, 0),
    Gestures({1}, <<MaxSends, 0>>, <<MaxSwitches, 0>>, <<0, 0>>, <<1, 0>>, <<MaxResets, 0>>, 0) }

\* the state of every client after construction
Constructed ==
  /\ user = [c \in Clients |-> FALSE]
  /\ session = [c \in Clients |-> NewSession(InitialSid(c))]
  /\ isLoading = [c \in Clients |-> FALSE]
  /\ syncStatus = [c \in Clients |-> "idle"]
  /\ viewMode = [c \in Clients |-> "chat"]
  /\ skipNextSync = [c \in Clients |-> FALSE]
  /\ localContent = [c \in Clients |-> ""]
  /\ timers = [c \in Clients |-> {}]
  /\ sub = [c \in Clients |-> NoSub]
  /\ inbox = [c \in Clients |-> <<>>]
  /\ store = [s \in SessionIds |-> NoDoc]
  /\ pipes = [c \in Clients |-> {}]
  /\ modeOps = [c \in Clients |-> {}]
  /\ canvasOps = [c \in Clients |-> {}]
  /\ sends = [c \in Clients |-> 0]
  /\ resets = [c \in Clients |-> 0]
  /\ editNo = [c \in Clients |-> 0]
  /\ switches = [c \in Clients |-> 0]
  /\ views = [c \in Clients |-> 0]
  /\ writes = [c \in Clients |-> 0]
  /\ fails = 0
  /\ rejected = {}
  /\ lastNote = [c \in Clients |-> NoNote]
  /\ arms = [c \in Clients |-> 0]
  /\ armSid = [c \in Clients |-> NoSid]
  /\ sinceArm = [c \in Clients |-> 2]
  /\ sinceEdit = [c \in Clients |-> QuietInterval]
  /\ superseded = [c \in Clients |-> {}]
  /\ abandoned = [c \in Clients |-> {}]
  /\ seeded = [s \in SessionIds |-> 0]

Init == Constructed /\ plan \in Plans

(* ------------------- the listener effect (subscribe) ------------------ *)
\* the effect of lines 86-132 run for the session sess: its closure, and the
\* first snapshot of the document
Subscription(sess) ==
  [sid |-> sess.id, title |-> sess.title, currentMode |-> sess.currentMode,
   canvasContent |-> sess.canvasContent]

FirstSnapshot(sid) == <<[doc |-> store[sid], by |-> 0, w |-> 0, sid |-> sid]>>

\* sign-in: setUser, then the shared-session effect and the listener effect
SharedLinks(c) == IF c \in Authors THEN {NoSid} ELSE {InitialSid(a) : a \in Authors}

ResubscribeKeepsQueue(c, sess) ==
  /\ sub' = [sub EXCEPT ![c] = Subscription(sess)]
  /\ inbox' = [inbox EXCEPT ![c] = @ \o FirstSnapshot(sess.id)]

\* lines 86-91 and 131-132: when user or session.id changes the effect's
\* cleanup unsubscribes the old listener, whose queued snapshots are never
\* delivered, and the effect subscribes to the document of the new id
Resubscribe(c, sess) ==
  /\ sub' = [sub EXCEPT ![c] = Subscription(sess)]
  /\ inbox' = [inbox EXCEPT ![c] = FirstSnapshot(sess.id)]

Login(c) ==
  /\ ~user[c]
  /\ c \in plan.login
  /\ \E shared \in SharedLinks(c) :
       LET sess == IF shared # NoSid THEN [session[c] EXCEPT !.id = shared] ELSE session[c]
       IN  /\ session' = [session EXCEPT ![c] = sess]
           /\ Resubscribe(c, sess)
  /\ user' = [user EXCEPT ![c] = TRUE]
  /\ UNCHANGED <<isLoading, syncStatus, viewMode, skipNextSync, localContent, timers,
                 store, pipes, modeOps, canvasOps, sends, resets, editNo, fails, rejected,
                 lastNote, sinceArm, sinceEdit, superseded, switches, views, plan, arms, armSid, writes, abandoned, seeded>>

(* ------------------------ onSnapshot callback ------------------------- *)
\* the patch with the transcripts concatenated in place of line 113
PatchAppends(prev, data) ==
  [prev EXCEPT !.title = IF "title" \in DOMAIN data /\ data.title # "" THEN data.title ELSE prev.title,
               !.currentMode = IF "currentMode" \in DOMAIN data /\ data.currentMode # ""
                               THEN data.currentMode ELSE prev.currentMode,
               !.canvasContent = IF "canvasContent" \in DOMAIN data THEN data.canvasContent
                                 ELSE prev.canvasContent,
               !.messages = prev.messages \o (IF "messages" \in DOMAIN data THEN data.messages ELSE <<>>)]

\* lines 93-99 and 108-114: the patch built from the snapshot's data.  A
\* field the data does not have is undefined: || and ?? then take the
\* previous value, and (data.messages || []) takes the empty transcript
Patch(prev, data) ==
  [prev EXCEPT !.title = IF "title" \in DOMAIN data /\ data.title # "" THEN data.title ELSE prev.title,
               !.currentMode = IF "currentMode" \in DOMAIN data /\ data.currentMode # ""
                               THEN data.currentMode ELSE prev.currentMode,
               !.canvasContent = IF "canvasContent" \in DOMAIN data THEN data.canvasContent
                                 ELSE prev.canvasContent,
               !.messages = IF "messages" \in DOMAIN data THEN data.messages ELSE <<>>]

\* the updater without line 104: the flag is read and never cleared
ApplyKeepsFlag(prev, flag, data) ==
  IF flag THEN [session |-> prev, flag |-> TRUE]
  ELSE [session |-> Patch(prev, data), flag |-> FALSE]

\* lines 101-115: the setSession updater, with the echo flag it reads and clears
ApplySnapshot(prev, flag, data) ==
  IF flag THEN [session |-> prev, flag |-> FALSE]
  ELSE [session |-> Patch(prev, data), flag |-> FALSE]

\* lines 119-127: the document the listener seeds a missing session with
SeedDoc(s) ==
  [exists |-> TRUE, title |-> s.title, currentMode |-> s.currentMode,
   canvasContent |-> s.canvasContent, messages |-> <<>>]

DeliveredWritesBack(c, rest) ==
  /\ inbox' = Notify(rest, sub[c].sid, store[sub[c].sid], c, writes[c] + 1)
  /\ store' = store
  /\ writes' = [writes EXCEPT ![c] = @ + 1]

\* lines 92-116: the branch for an existing document takes the snapshot off
\* the queue and calls setSession and setSyncStatus only: no write
Delivered(c, rest) ==
  /\ inbox' = rest
  /\ store' = store
  /\ writes' = writes

onSnapshot(c) ==
  /\ user[c]
  /\ inbox[c] # <<>>
  /\ LET note == Head(inbox[c])
         rest == [inbox EXCEPT ![c] = Tail(inbox[c])]
     IN  IF note.doc.exists
         THEN LET r == ApplySnapshot(session[c], skipNextSync[c], note.doc)
              IN  /\ session' = [session EXCEPT ![c] = r.session]
                  /\ skipNextSync' = [skipNextSync EXCEPT ![c] = r.flag]
                  /\ syncStatus' = [syncStatus EXCEPT ![c] = "synced"]
                  /\ Delivered(c, rest)
                  /\ lastNote' = [lastNote EXCEPT ![c] =
                       [kind |-> IF skipNextSync[c] THEN "dropped" ELSE "applied",
                        by |-> note.by, n |-> sinceArm[c],
                        kept |-> r.session = session[c],
                        applied |-> r.session = Patch(session[c], note.doc),
                        arms |-> IF skipNextSync[c] THEN arms[c] ELSE lastNote[c].arms]]
                  /\ arms' = [arms EXCEPT ![c] = IF skipNextSync[c] THEN 0 ELSE @]
                  /\ armSid' = armSid
                  /\ sinceArm' = [sinceArm EXCEPT ![c] = Min(2, @ + 1)]
                  /\ seeded' = seeded
         ELSE /\ Room(rest, sub[c].sid)
              /\ store' = [store EXCEPT ![sub[c].sid] = SeedDoc(sub[c])]
              /\ inbox' = Notify(rest, sub[c].sid, SeedDoc(sub[c]), c, writes[c] + 1)
              /\ writes' = [writes EXCEPT ![c] = @ + 1]
              /\ seeded' = [seeded EXCEPT ![sub[c].sid] = Min(2, @ + 1)]
              /\ UNCHANGED <<session, skipNextSync, syncStatus, lastNote, arms, armSid, sinceArm>>
  /\ Render(c, session'[c], viewMode[c])
  /\ UNCHANGED <<user, isLoading, viewMode, sub, pipes, modeOps, canvasOps,
                 sends, resets, editNo, fails, rejected, sinceEdit, superseded, switches, views, plan, abandoned>>

(* -------------------------- handleSendMessage ------------------------- *)
Replace(c, p, q) == [pipes EXCEPT ![c] = (@ \ {p}) \cup {q}]

\* a store write of a handleSendMessage call, as it is issued: what it
\* carries, how it will settle, and (history) whether the echo flag was set
\* and whether the call's session was still the live one
Write(c, sid, msgs, ok) ==
  [msgs |-> msgs, ok |-> ok, w |-> writes[c] + 1, armed |-> skipNextSync[c],
   stale |-> sid # session[c].id]

\* lines 167-185: the user message, the optimistic update and the first write
handleSendMessage(c, text, att) ==
  /\ user[c]
  /\ sends[c] < plan.sends[c]
  /\ LET n == sends[c] + 1
         sid == session[c].id
         content == IF text # <<>> THEN text ELSE IF att THEN RefineText ELSE <<>>
         userMessage == Message(<<c, n, "u">>, "user", content, sid, "")
         updatedMessages == Append(session[c].messages, userMessage)
     IN  \E ok \in Outcomes(sid) :
           /\ session' = [session EXCEPT ![c].messages = updatedMessages]
           /\ updateDoc(c, sid, [store[sid] EXCEPT !.messages = updatedMessages], ok)
           /\ pipes' = [pipes EXCEPT ![c] = @ \cup
                {[n |-> n, pc |-> "userWrite", sid |-> sid, mode |-> session[c].currentMode,
                  att |-> att, um |-> updatedMessages, prior |-> session[c].messages,
                  aid |-> <<c, n, "a">>, content |-> <<>>, seen |-> <<>>, gen |-> FALSE,
                  wr |-> Write(c, sid, updatedMessages, ok)]}]
           /\ sends' = [sends EXCEPT ![c] = n]
           /\ Render(c, session'[c], viewMode[c])
  /\ UNCHANGED <<user, isLoading, syncStatus, viewMode, skipNextSync, sub, modeOps,
                 canvasOps, resets, editNo, lastNote, sinceArm, sinceEdit, superseded, switches, views, plan, arms, armSid, abandoned, seeded>>

\* ChatInput.handleSend: the chat input sends unless isLoading
handleSend(c) ==
  /\ ~isLoading[c]
  /\ \E in \in SendInputs : handleSendMessage(c, in.text, in.att)

\* lines 258-266: REWRITE and EXPAND act on a selection, CONTINUE is disabled
\* while isLoading
Prompt(action) == IF action = "REWRITE" THEN <<"R", "w">> ELSE <<"C", "o">>

handleCanvasAction(c) ==
  /\ Mounted(session[c], viewMode[c])
  /\ \E action \in CanvasActions :
       /\ action = "CONTINUE" => ~isLoading[c]
       /\ action = "REWRITE" => localContent[c] # ""
       /\ handleSendMessage(c, Prompt(action), FALSE)

UsesImageModeOnly(mode, att) == mode = "IMAGE_PROMPT"

\* line 192: the branch of the try block that calls generateMovaImage
UsesImage(mode, att) == mode = "IMAGE_PROMPT" \/ att

\* lines 185-191: the first write settles; a rejection leaves the function
UserWriteSettles(c) ==
  \E p \in pipes[c] :
    /\ p.pc = "userWrite"
    /\ p.wr.ok => EchoSeen(c, p.wr.w)
    /\ IF p.wr.ok
       THEN /\ isLoading' = [isLoading EXCEPT ![c] = TRUE]
            /\ pipes' = Replace(c, p, [p EXCEPT !.pc =
                 IF UsesImage(p.mode, p.att) THEN "image" ELSE "stream"])
       ELSE /\ isLoading' = isLoading
            /\ pipes' = [pipes EXCEPT ![c] = @ \ {p}]
    /\ UNCHANGED <<user, session, syncStatus, viewMode, skipNextSync, localContent,
                   timers, sub, inbox, store, modeOps, canvasOps, sends, resets,
                   editNo, fails, rejected, lastNote, sinceArm, sinceEdit, superseded, switches, views, plan, arms, armSid, writes, abandoned, seeded>>

\* lines 243-252: the catch block writes the transcript with an error
\* message; gen (history) tells that it caught a failure of the generation
Catch(c, p, gen) ==
  LET errorMsg == Message(<<c, p.n, "e">>, "assistant", ErrorText, p.sid, "")
      msgs == Append(p.um, errorMsg)
  IN  \E ok \in Outcomes(p.sid) :
        /\ updateDoc(c, p.sid, [store[p.sid] EXCEPT !.messages = msgs], ok)
        /\ pipes' = Replace(c, p, [p EXCEPT !.pc = "errWrite", !.gen = gen,
                                             !.wr = Write(c, p.sid, msgs, ok)])

FinallyKeepsLoading(c, p) ==
  /\ isLoading' = isLoading
  /\ pipes' = [pipes EXCEPT ![c] = @ \ {p}]

\* lines 253-255: finally
Finally(c, p) ==
  /\ isLoading' = [isLoading EXCEPT ![c] = FALSE]
  /\ pipes' = [pipes EXCEPT ![c] = @ \ {p}]

\* lines 192-202: generateMovaImage returns or rejects
ImageSettles(c) ==
  \E p \in pipes[c] :
    /\ p.pc = "image"
    /\ \E failed \in BOOLEAN, result \in ImageResults :
         IF failed
         THEN Catch(c, p, TRUE)
         ELSE LET assistantMsg == Message(<<c, p.n, "i">>, "assistant",
                    IF result.textContent # <<>> THEN result.textContent ELSE RefinementComplete,
                    p.sid, result.imageUrl)
                  finalMessages == Append(p.um, assistantMsg)
              IN  \E ok \in Outcomes(p.sid) :
                    /\ updateDoc(c, p.sid, [store[p.sid] EXCEPT !.messages = finalMessages], ok)
                    /\ pipes' = Replace(c, p, [p EXCEPT !.pc = "imageWrite",
                                                         !.wr = Write(c, p.sid, finalMessages, ok)])
    /\ UNCHANGED <<user, session, isLoading, syncStatus, viewMode, skipNextSync,
                   localContent, timers, sub, modeOps, canvasOps, sends, resets,
                   editNo, lastNote, sinceArm, sinceEdit, superseded, switches, views, plan, arms, armSid, abandoned, seeded>>

\* lines 209-221: streamMovaContent returns the stream, or rejects; the
\* placeholder is set from the closure's transcript
StreamOpens(c) ==
  \E p \in pipes[c] :
    /\ p.pc = "stream"
    /\ \E failed \in BOOLEAN :
         IF failed
         THEN /\ Catch(c, p, TRUE)
              /\ UNCHANGED <<session, localContent, timers>>
         ELSE LET placeholder == Message(p.aid, "assistant", <<>>, p.sid, "")
                  streamingMessages == Append(p.um, placeholder)
              IN  /\ session' = [session EXCEPT ![c].messages = streamingMessages]
                  /\ pipes' = Replace(c, p, [p EXCEPT !.pc = "chunks"])
                  /\ Render(c, session'[c], viewMode[c])
                  /\ UNCHANGED <<store, inbox, writes, fails, rejected>>
    /\ UNCHANGED <<user, isLoading, syncStatus, viewMode, skipNextSync, sub, modeOps,
                   canvasOps, sends, resets, editNo, lastNote, sinceArm, sinceEdit,
                   superseded, switches, views, plan, arms, armSid, abandoned, seeded>>

\* line 225 with = in place of +=
AccumulateLast(content, text) == text

\* line 225: assistantContent += c.text
Accumulate(content, text) == content \o text

\* lines 227-230: the updater maps the content into the message with the id
SetContent(msgs, id, content) ==
  [i \in 1..Len(msgs) |-> IF msgs[i].id = id THEN [msgs[i] EXCEPT !.content = content] ELSE msgs[i]]

\* lines 223-231: one iteration of the for-await loop
ChunkArrives(c) ==
  \E p \in pipes[c] :
    /\ p.pc = "chunks"
    /\ Len(p.seen) < MaxChunks
    /\ LET text == StreamChunks[Len(p.seen) + 1]
           assistantContent == Accumulate(p.content, text)
       IN  /\ session' = [session EXCEPT ![c].messages = SetContent(@, p.aid, assistantContent)]
           /\ pipes' = Replace(c, p, [p EXCEPT !.content = assistantContent,
                                                !.seen = Append(@, text)])
    /\ Render(c, session'[c], viewMode[c])
    /\ UNCHANGED <<user, isLoading, syncStatus, viewMode, skipNextSync, sub, inbox,
                   store, modeOps, canvasOps, sends, resets, editNo, fails, rejected, lastNote,
                   sinceArm, sinceEdit, superseded, switches, views, plan, arms, armSid, writes, abandoned, seeded>>

FinalMessageEmpty(p) == Message(p.aid, "assistant", <<>>, p.sid, "")

\* lines 233-239: finalAssistantMsg
FinalMessage(p) == Message(p.aid, "assistant", p.content, p.sid, "")

\* lines 233-241: the stream is exhausted; the final write.  Or the stream
\* throws, and the catch block runs
StreamEnds(c) ==
  \E p \in pipes[c] :
    /\ p.pc = "chunks"
    /\ \E failed \in BOOLEAN :
         IF failed
         THEN Catch(c, p, TRUE)
         ELSE LET finalAssistantMsg == FinalMessage(p)
                  msgs == Append(p.um, finalAssistantMsg)
              IN  \E ok \in Outcomes(p.sid) :
                    /\ updateDoc(c, p.sid, [store[p.sid] EXCEPT !.messages = msgs], ok)
                    /\ pipes' = Replace(c, p, [p EXCEPT !.pc = "finalWrite",
                                                         !.wr = Write(c, p.sid, msgs, ok)])
    /\ UNCHANGED <<user, session, isLoading, syncStatus, viewMode, skipNextSync,
                   localContent, timers, sub, modeOps, canvasOps, sends, resets,
                   editNo, lastNote, sinceArm, sinceEdit, superseded, switches, views, plan, arms, armSid, abandoned, seeded>>

\* lines 202, 241: the write of the try block settles; a rejection is caught
TryWriteSettles(c) ==
  \E p \in pipes[c] :
    /\ p.pc \in {"imageWrite", "finalWrite"}
    /\ p.wr.ok => EchoSeen(c, p.wr.w)
    /\ IF p.wr.ok
       THEN /\ Finally(c, p)
            /\ UNCHANGED <<store, inbox, writes, fails, rejected>>
       ELSE /\ Catch(c, p, FALSE)
            /\ UNCHANGED isLoading
    /\ UNCHANGED <<user, session, syncStatus, viewMode, skipNextSync, localContent,
                   timers, sub, modeOps, canvasOps, sends, resets, editNo, lastNote,
                   sinceArm, sinceEdit, superseded, switches, views, plan, arms, armSid, abandoned, seeded>>

\* lines 252-255: the write of the catch block settles either way
CatchWriteSettles(c) ==
  \E p \in pipes[c] :
    /\ p.pc = "errWrite"
    /\ p.wr.ok => EchoSeen(c, p.wr.w)
    /\ Finally(c, p)
    /\ UNCHANGED <<user, session, syncStatus, viewMode, skipNextSync, localContent,
                   timers, sub, inbox, store, modeOps, canvasOps, sends, resets,
                   editNo, fails, rejected, lastNote, sinceArm, sinceEdit, superseded, switches, views, plan, arms, armSid, writes, abandoned, seeded>>

(* ------------------------------ switchMode ---------------------------- *)
ViewOf(mode) == IF mode \in DocModes THEN "canvas" ELSE "chat"

\* lines 273-277: the local patch and the write of the mode
switchMode(c) ==
  /\ user[c]
  /\ switches[c] < plan.switches[c]
  /\ switches' = [switches EXCEPT ![c] = @ + 1]
  /\ views' = views
  /\ \E mode \in Modes :
       LET sid == session[c].id
       IN  \E ok \in Outcomes(sid) :
             /\ session' = [session EXCEPT ![c].currentMode = mode]
             /\ updateDoc(c, sid, [store[sid] EXCEPT !.currentMode = mode], ok)
             /\ modeOps' = [modeOps EXCEPT ![c] = @ \cup
                  {[mode |-> mode, ok |-> ok, w |-> writes[c] + 1,
                    armed |-> skipNextSync[c]]}]
  /\ Render(c, session'[c], viewMode[c])
  /\ UNCHANGED <<user, isLoading, syncStatus, viewMode, skipNextSync, sub, pipes,
                 canvasOps, sends, resets, editNo, lastNote, sinceArm, sinceEdit,
                 superseded, plan, arms, armSid, abandoned, seeded>>

\* lines 277-283: the write settles; setViewMode runs unless it rejected
ModeWriteSettles(c) ==
  \E op \in modeOps[c] :
    /\ op.ok => EchoSeen(c, op.w)
    /\ modeOps' = [modeOps EXCEPT ![c] = @ \ {op}]
    /\ viewMode' = [viewMode EXCEPT ![c] = IF op.ok THEN ViewOf(op.mode) ELSE @]
    /\ Render(c, session[c], viewMode'[c])
    /\ UNCHANGED <<user, session, isLoading, syncStatus, skipNextSync, sub, inbox,
                   store, pipes, canvasOps, sends, resets, editNo, fails, rejected, lastNote,
                   sinceArm, sinceEdit, superseded, switches, views, plan, arms, armSid, writes, abandoned, seeded>>

\* the CHAT and CANVAS tabs (the CANVAS tab shows in the document modes only)
setViewMode(c) ==
  /\ user[c]
  /\ views[c] < plan.views[c]
  /\ views' = [views EXCEPT ![c] = @ + 1]
  /\ switches' = switches
  /\ \E v \in Views :
       /\ v # viewMode[c]
       /\ v = "canvas" => session[c].currentMode \in DocModes
       /\ viewMode' = [viewMode EXCEPT ![c] = v]
  /\ Render(c, session[c], viewMode'[c])
  /\ UNCHANGED <<user, session, isLoading, syncStatus, skipNextSync, sub, inbox,
                 store, pipes, modeOps, canvasOps, sends, resets, editNo, fails, rejected,
                 lastNote, sinceArm, sinceEdit, superseded, plan, arms, armSid, writes, abandoned, seeded>>

(* ----------------------------- resetSession --------------------------- *)
NewIdReused(c) == InitialSid(c)

\* line 287: uuidv4(), an id no client has used
NewId(c) == <<c, resets[c] + 1>>

\* lines 286-294, and the listener effect that follows the new id
resetSession(c) ==
  /\ user[c]
  /\ resets[c] < plan.resets[c]
  /\ LET newId == NewId(c)
     IN  /\ session' = [session EXCEPT ![c] = NewSession(newId)]
         /\ Resubscribe(c, NewSession(newId))
  /\ viewMode' = [viewMode EXCEPT ![c] = "chat"]
  /\ resets' = [resets EXCEPT ![c] = @ + 1]
  /\ abandoned' = [abandoned EXCEPT ![c] =
       @ \cup {[n |-> p.n, pc |-> p.pc] : p \in {q \in pipes[c] : q.pc \in {"stream", "chunks"}}}]
  /\ Render(c, session'[c], viewMode'[c])
  /\ UNCHANGED <<user, isLoading, syncStatus, skipNextSync, store, pipes, modeOps,
                 canvasOps, sends, editNo, fails, rejected, lastNote, sinceArm, sinceEdit,
                 superseded, switches, views, plan, arms, armSid, writes, seeded>>

(* ---------------------- the debounced publisher ----------------------- *)
Live(c) == {t \in timers[c] : t.live}

\* CreativeCanvas lines 25-33.  A timer that is due runs before the next
\* keystroke is handled.
handleTextChange(c) ==
  /\ Mounted(session[c], viewMode[c])
  /\ editNo[c] < plan.edits[c]
  /\ \A t \in Live(c) : t.left > 0
  /\ \E newVal \in {EditTexts[editNo[c] + 1]} :
       /\ newVal # localContent[c]
       /\ localContent' = [localContent EXCEPT ![c] = newVal]
       /\ timers' = [timers EXCEPT ![c] = (@ \ Live(c)) \cup
            {[val |-> newVal, sid |-> session[c].id, left |-> QuietInterval,
              live |-> TRUE, no |-> editNo[c] + 1]}]
  /\ editNo' = [editNo EXCEPT ![c] = @ + 1]
  /\ superseded' = [superseded EXCEPT ![c] =
       IF editNo[c] > 0 /\ sinceEdit[c] < QuietInterval THEN @ \cup {editNo[c]} ELSE @]
  /\ sinceEdit' = [sinceEdit EXCEPT ![c] = 0]
  /\ UNCHANGED <<user, session, isLoading, syncStatus, viewMode, skipNextSync, sub,
                 inbox, store, pipes, modeOps, canvasOps, sends, resets, fails, rejected,
                 lastNote, sinceArm, switches, views, plan, arms, armSid, writes, abandoned, seeded>>

\* types.ts lines 135-144: the timer runs onUpdate(newVal), which is the
\* syncCanvasToCloud of the render the edit was made in
syncCanvasToCloud(c) ==
  \E t \in timers[c] :
    /\ t.left = 0
    /\ timers' = [timers EXCEPT ![c] = @ \ {t}]
    /\ syncStatus' = [syncStatus EXCEPT ![c] = "syncing"]
    /\ skipNextSync' = [skipNextSync EXCEPT ![c] = TRUE]
    /\ sinceArm' = [sinceArm EXCEPT ![c] = 0]
    /\ arms' = [arms EXCEPT ![c] = Min(2, @ + 1)]
    /\ armSid' = [armSid EXCEPT ![c] = t.sid]
    /\ \E ok \in Outcomes(t.sid) :
         /\ updateDoc(c, t.sid, [store[t.sid] EXCEPT !.canvasContent = t.val], ok)
         /\ canvasOps' = [canvasOps EXCEPT ![c] = @ \cup
              {[no |-> t.no, val |-> t.val, ok |-> ok, w |-> writes[c] + 1,
                armed |-> skipNextSync'[c]]}]
    /\ UNCHANGED <<user, session, isLoading, viewMode, localContent, sub, pipes,
                   modeOps, sends, resets, editNo, lastNote, sinceEdit, superseded, switches, views, plan, abandoned, seeded>>

\* types.ts lines 145-149: the write settles
CanvasWriteSettles(c) ==
  \E op \in canvasOps[c] :
    /\ op.ok => EchoSeen(c, op.w)
    /\ canvasOps' = [canvasOps EXCEPT ![c] = @ \ {op}]
    /\ syncStatus' = [syncStatus EXCEPT ![c] = IF op.ok THEN "synced" ELSE "idle"]
    /\ UNCHANGED <<user, session, isLoading, viewMode, skipNextSync, localContent,
                   timers, sub, inbox, store, pipes, modeOps, sends, resets, editNo,
                   fails, rejected, lastNote, sinceArm, sinceEdit, superseded, switches, views, plan, arms, armSid, writes, abandoned, seeded>>

\* time passes, up to the next timer that is due
AllTimers == UNION {timers[c] : c \in Clients}

Tick ==
  /\ AllTimers # {}
  /\ \A t \in AllTimers : t.left > 0
  /\ LET next == CHOOSE d \in {t.left : t \in AllTimers} : \A t \in AllTimers : d <= t.left
         d == Min(TickStep, next)
     IN  /\ timers' = [c \in Clients |-> {[t EXCEPT !.left = @ - d] : t \in timers[c]}]
         /\ sinceEdit' = [c \in Clients |-> Min(QuietInterval, sinceEdit[c] + d)]
  /\ UNCHANGED <<user, session, isLoading, syncStatus, viewMode, skipNextSync,
                 localContent, sub, inbox, store, pipes, modeOps, canvasOps, sends,
                 resets, editNo, fails, rejected, lastNote, sinceArm, superseded, switches, views, plan, arms, armSid, writes, abandoned, seeded>>

(* ---------------------------- specification --------------------------- *)
Next ==
  \/ \E c \in Clients : Login(c)
  \/ \E c \in Clients : onSnapshot(c)
  \/ \E c \in Clients : handleSend(c)
  \/ \E c \in Clients : handleCanvasAction(c)
  \/ \E c \in Clients : UserWriteSettles(c)
  \/ \E c \in Clients : ImageSettles(c)
  \/ \E c \in Clients : StreamOpens(c)
  \/ \E c \in Clients : ChunkArrives(c)
  \/ \E c \in Clients : StreamEnds(c)
  \/ \E c \in Clients : TryWriteSettles(c)
  \/ \E c \in Clients : CatchWriteSettles(c)
  \/ \E c \in Clients : switchMode(c)
  \/ \E c \in Clients : ModeWriteSettles(c)
  \/ \E c \in Clients : setViewMode(c)
  \/ \E c \in Clients : resetSession(c)
  \/ \E c \in Clients : handleTextChange(c)
  \/ \E c \in Clients : syncCanvasToCloud(c)
  \/ \E c \in Clients : CanvasWriteSettles(c)
  \/ Tick

Spec == Init /\ [][Next]_vars

\* what happens without the user: the collaborators (store, generators,
\* stream) answer and the event loop runs the callbacks and continuations
Continues ==
  \E c \in Clients :
    \/ onSnapshot(c)
    \/ UserWriteSettles(c)
    \/ ImageSettles(c)
    \/ StreamOpens(c)
    \/ StreamEnds(c)
    \/ TryWriteSettles(c)
    \/ CatchWriteSettles(c)

\* the plans under which termination is checked: a failing store with a
\* reset, two calls of one client in progress at once, and a mode switch, a
\* view change and an edit around a call
LivePlans ==
  { Gestures({1}, <<MaxSends, 0>>, <<0, 0>>, <<0, 0>>, <<0, 0>>, <<MaxResets, 0>>, MaxFail),
    Gestures({1}, <<MaxSends + 1, 0>>, <<MaxSwitches, 0>>, <<0, 0>>, <<0, 0>>, <<0, 0>>, 0),
    Gestures({1}, <<MaxSends, 0>>, <<MaxSwitches, 0>>, <<1, 0>>, <<1, 0>>, <<0, 0>>, 0) }

\* every collaborator call eventually returns or rejects and the stream ends
LiveInit == Constructed /\ plan \in LivePlans

FairSpec == LiveInit /\ [][Next]_vars /\ WF_vars(Continues)

(* ------------------------- the echo flag ------------------------------ *)
\* C1: exactly one snapshot is discarded per arming of the echo flag.  The
\* flag is set exactly when no snapshot of an existing document has been
\* delivered since it was last armed; the first snapshot delivered after an
\* arming (however many times the flag was armed before it) leaves the
\* session as it was, and a snapshot delivered after that one without a new
\* arming is applied as a patch.
OneDropPerArm ==
  \A c \in Clients :
    /\ skipNextSync[c] <=> sinceArm[c] = 0
    /\ skipNextSync[c] <=> arms[c] > 0
    /\ lastNote[c].kind # "none" =>
         IF lastNote[c].n = 0 THEN lastNote[c].kept ELSE lastNote[c].applied

\* C1 happens: the flag was armed twice in a row, the next snapshot was
\* discarded, and the one after it was applied and changed the session
DoubleArmOneDrop ==
  \E c \in Clients :
    /\ lastNote[c].n = 1
    /\ lastNote[c].arms = 2
    /\ lastNote[c].applied
    /\ ~lastNote[c].kept
    /\ ~skipNextSync[c]

\* C2: every snapshot the guard discards was caused by a write of the
\* client that discards it; a change written by another client is never
\* discarded.
DropsOnlyOwnEchoes ==
  \A c \in Clients : lastNote[c].kind = "dropped" => lastNote[c].by = c

\* C3: at the moment a client issues a store write (a transcript write of
\* handleSendMessage, the mode write of switchMode, the document write of
\* syncCanvasToCloud) its echo flag is set.
WritesAreArmed ==
  \A c \in Clients :
    /\ \A p \in pipes[c] : p.wr.armed
    /\ \A op \in modeOps[c] : op.armed
    /\ \A op \in canvasOps[c] : op.armed

(* ------------------------ reset and generation ----------------------- *)
\* C4: after a reset made while a text generation was under way, the
\* transcript of the live session holds no trace of that generation: every
\* message in it (user message, placeholder, error message) was made for the
\* live session.
NoTraceAfterReset ==
  \A c \in Clients :
    abandoned[c] # {} =>
      \A i \in 1..Len(session[c].messages) : session[c].messages[i].sess = session[c].id

\* C5: a text generation that was streaming when its session was reset
\* writes no transcript to the store afterwards, neither its final message
\* nor an error message.
NoWriteAfterReset ==
  \A c \in Clients :
    \A p \in pipes[c] :
      [n |-> p.n, pc |-> "chunks"] \in abandoned[c] => p.pc \notin {"finalWrite", "errWrite"}

(* ---------------------------- the transcript -------------------------- *)
\* C6: the store's transcript is append-only when two clients send on one
\* session (each of them one message at a time): in every step, the
\* messages of a stored transcript are still there afterwards, in the same
\* relative order.
StoreAppendOnly ==
  [][(\A c \in Clients : sends'[c] <= 1) =>
       \A sid \in SessionIds : IsSubseqById(store[sid].messages, store'[sid].messages)]_vars

\* C7: the final write of a text generation carries the transcript as it was
\* when the message was sent, then the user message, then the assistant
\* message, which has the placeholder's id and the concatenation of the
\* chunks in arrival order as its content; with an empty transcript before,
\* that is exactly two messages.
FinalTranscript(p) ==
  p.prior \o <<p.um[Len(p.um)], Message(p.aid, "assistant", Flatten(p.seen), p.sid, "")>>

FinalWriteCarriesTranscript ==
  \A c \in Clients :
    \A p \in pipes[c] :
      p.pc = "finalWrite" =>
        /\ p.wr.msgs = FinalTranscript(p)
        /\ p.um[Len(p.um)].role = "user"
        /\ p.prior = <<>> => Len(p.wr.msgs) = 2

\* C7 happens: a final write after two chunks, on a transcript that was not
\* empty, accepted by the store
FinalWriteAfterChunks ==
  \E c \in Clients :
    \E p \in pipes[c] :
      /\ p.pc = "finalWrite"
      /\ p.wr.ok
      /\ ~p.wr.stale
      /\ p.prior # <<>>
      /\ Len(p.seen) = MaxChunks
      /\ p.content = Flatten(p.seen)

\* C8: while a stream is in progress the placeholder stays in the session's
\* transcript and each step extends its content: the old content is a
\* prefix of the new one, also in a step that applies a snapshot.
Streaming(c, n) == \E p \in pipes[c] : p.n = n /\ p.pc = "chunks" /\ p.sid = session[c].id

PlaceholderGrows ==
  [][\A c \in Clients :
       \A p \in pipes[c] :
         Streaming(c, p.n) /\ Streaming(c, p.n)' /\ p.aid \in Ids(session[c].messages) =>
           /\ p.aid \in Ids(session'[c].messages)
           /\ \A i \in 1..Len(session[c].messages), j \in 1..Len(session'[c].messages) :
                session[c].messages[i].id = p.aid /\ session'[c].messages[j].id = p.aid =>
                  IsPrefix(session[c].messages[i].content, session'[c].messages[j].content)]_vars

(* ---------------------- the debounced publisher ----------------------- *)
\* C9: of a run of edits, each made less than the quiet interval after the
\* one before, only the last is written to the store: no write carries an
\* edit that another edit followed within the interval, and the write of
\* an edit is issued one quiet interval after it.
OnlyLastEditWritten ==
  \A c \in Clients :
    \A op \in canvasOps[c] :
      /\ op.no \notin superseded[c]
      /\ op.no = editNo[c] => sinceEdit[c] = QuietInterval

\* C10: an edit sets the canvasContent of the session to the text typed,
\* in the same step.
EditUpdatesSession ==
  [][\A c \in Clients :
       editNo'[c] # editNo[c] => session'[c].canvasContent = localContent'[c]]_vars

(* --------------------------- remote patches --------------------------- *)
\* snapshots to apply to every session state that is reached: with and
\* without a title and a mode, with and without a document and a transcript
PatchInputs ==
  { [exists |-> TRUE, title |-> tm[1], currentMode |-> tm[2], canvasContent |-> doc,
     messages |-> msgs] :
      tm \in {<<"", "">>, <<"Shared", "SCRIPT">>},
      doc \in {"", "abc"},
      msgs \in {<<>>, <<Message(<<2, 1, "u">>, "user", <<"h", "i">>, InitialSid(1), "")>>} }

Queued(c) == {inbox[c][i].doc : i \in 1..Len(inbox[c])}

\* C11: with the echo flag not set, applying a snapshot of an existing
\* document twice in a row gives the session state that applying it once
\* gives, for every session state reached and every snapshot (the queued
\* ones and PatchInputs).
PatchIdempotent ==
  \A c \in Clients :
    \A data \in {d \in PatchInputs \cup Queued(c) : d.exists} :
      LET once == ApplySnapshot(session[c], FALSE, data).session
      IN  ApplySnapshot(once, FALSE, data).session = once

\* C11 happens: a snapshot was applied and changed the session, and the next
\* snapshot in the queue would change it again
PatchChangesSession ==
  \E c \in Clients :
    /\ lastNote[c].kind = "applied"
    /\ ~lastNote[c].kept
    /\ ~skipNextSync[c]
    /\ inbox[c] # <<>>
    /\ Head(inbox[c]).doc.exists
    /\ Patch(session[c], Head(inbox[c]).doc) # session[c]

(* ------------------------------ failures ------------------------------ *)
\* C12: when the generation fails, handleSendMessage completes normally (the
\* promise of its last await is not rejected) and the transcript of the
\* session then holds the assistant message that describes the error.
ErrorIsShown ==
  [][\A c \in Clients :
       \A p \in pipes[c] :
         p.pc = "errWrite" /\ p.gen /\ p \notin pipes'[c] /\ p.sid = session'[c].id =>
           /\ p.wr.ok
           /\ <<c, p.n, "e">> \in Ids(session'[c].messages)]_vars

\* C13: when a store write is rejected, syncStatus becomes "idle", the
\* session stays as the optimistic update left it, and the operation goes
\* on: a rejected transcript write does not end handleSendMessage before
\* its generation or its finally block, a rejected mode write does not keep
\* switchMode from choosing the view.
WriteFailureTolerated ==
  [][\A c \in Clients :
       /\ \A p \in pipes[c] :
            ~p.wr.ok /\ p \notin pipes'[c] =>
              /\ syncStatus'[c] = "idle"
              /\ session'[c] = session[c]
              /\ p.pc = "userWrite" => \E q \in pipes'[c] : q.n = p.n
       /\ \A op \in modeOps[c] :
            ~op.ok /\ op \notin modeOps'[c] =>
              /\ syncStatus'[c] = "idle"
              /\ session'[c] = session[c]
              /\ viewMode'[c] = ViewOf(op.mode)
       /\ \A op \in canvasOps[c] :
            ~op.ok /\ op \notin canvasOps'[c] =>
              /\ syncStatus'[c] = "idle"
              /\ session'[c] = session[c]]_vars

(* ------------------------------- seeding ------------------------------ *)
\* C14: for every session id at most one seed write (setDoc) is issued, by
\* whichever clients are subscribed to it.
SeededOnce == \A sid \in SessionIds : seeded[sid] <= 1

(* ------------------------- finished messages -------------------------- *)
\* an assistant message of a stream whose handleSendMessage call has ended:
\* it is in the store only by the final write, which has settled
Finished(m) == m.id[3] = "a" /\ \A p \in pipes[m.id[1]] : p.n # m.id[2]

Holds(msgs, m) == \E j \in 1..Len(msgs) : msgs[j].id = m.id /\ msgs[j].content = m.content

\* C15: once the final write of a streamed assistant message has completed,
\* the message stays, with the same content, in the store's transcript and
\* in the transcript of every session state that holds it.
FinishedIsImmutable ==
  [][\A sid \in SessionIds :
       \A i \in 1..Len(store[sid].messages) :
         LET m == store[sid].messages[i]
         IN  Finished(m) =>
               /\ Holds(store'[sid].messages, m)
               /\ \A c \in Clients :
                    session[c].id = sid /\ session'[c].id = sid /\ Holds(session[c].messages, m)
                      => Holds(session'[c].messages, m)]_vars

(* ------------------------- the local transcript ----------------------- *)
\* C16: a step of a client that is neither the onSnapshot callback applying
\* a snapshot nor resetSession keeps every message that the session's
\* transcript holds when it is applied, in place and in order.
LocalStepsAppend ==
  [][\A c \in Clients :
       /\ session'[c].id = session[c].id
       /\ ~(inbox[c] # <<>> /\ inbox'[c] = Tail(inbox[c]))
       => IsSubseqById(session[c].messages, session'[c].messages)]_vars

(* ------------------------------ quiescence ---------------------------- *)
\* C17: when a signed-in client has no pipeline, no mode or canvas write and
\* no debounce timer pending and every snapshot sent to it has been handed to
\* its onSnapshot callback, and none of its writes was rejected, its
\* session's mode, document and transcript are
\* those of the stored document of its session id.
QuiescentAgrees ==
  \A c \in Clients :
    /\ user[c] /\ sub[c].sid = session[c].id /\ store[session[c].id].exists
    /\ pipes[c] = {} /\ modeOps[c] = {} /\ canvasOps[c] = {} /\ timers[c] = {}
    /\ inbox[c] = <<>> /\ c \notin rejected
    => /\ session[c].currentMode = store[session[c].id].currentMode
       /\ session[c].canvasContent = store[session[c].id].canvasContent
       /\ session[c].messages = store[session[c].id].messages

ChunksAreLocal ==
  [][\A c \in Clients : \A p \in pipes[c] : \A q \in pipes'[c] :
       p.pc = "chunks" /\ q.n = p.n /\ q # p =>
         /\ q.pc \in {"chunks", "finalWrite", "errWrite"}
         /\ q.pc = "chunks" =>
               /\ Len(q.seen) = Len(p.seen) + 1
               /\ store' = store /\ writes' = writes /\ inbox' = inbox
         /\ q.pc = "finalWrite" =>
               /\ q.seen = p.seen
               /\ q.wr.msgs[Len(q.wr.msgs)].id = p.aid
               /\ q.wr.msgs[Len(q.wr.msgs)].content = Flatten(p.seen)
               /\ writes'[c] = writes[c] + (IF q.wr.ok THEN 1 ELSE 0)
               /\ q.wr.ok => store'[p.sid].messages = q.wr.msgs]_vars

\* the single write of a generation that took every chunk, as the stored
\* transcript of a session that was empty before the message was sent
OneWriteForAllChunks ==
  \E c \in Clients : \E p \in pipes[c] :
    /\ p.pc = "finalWrite" /\ p.wr.ok /\ p.prior = <<>>
    /\ Len(p.seen) = MaxChunks
    /\ store[p.sid].messages = p.wr.msgs
    /\ p.wr.msgs[Len(p.wr.msgs)].content = Flatten(SubSeq(StreamChunks, 1, MaxChunks))

(* ------------------------------ switchMode frame ---------------------- *)
\* C20: the switchMode call sets the session's mode and writes the mode field
\* only, and neither the call nor the delivery of the snapshot of its own
\* write changes the session's transcript, document, title or id.
SwitchModeFrame ==
  [][\A c \in Clients :
       LET call == switches'[c] # switches[c]
           echo == /\ inbox[c] # <<>> /\ inbox'[c] = Tail(inbox[c])
                   /\ Head(inbox[c]).by = c
                   /\ \E op \in modeOps[c] : op.ok /\ op.w = Head(inbox[c]).w
       IN  /\ call \/ echo =>
                /\ session'[c].messages = session[c].messages
                /\ session'[c].canvasContent = session[c].canvasContent
                /\ session'[c].title = session[c].title
                /\ session'[c].id = session[c].id
           /\ call => \A sid \in SessionIds :
                        store'[sid] = [store[sid] EXCEPT !.currentMode = store'[sid].currentMode]]_vars

(* ------------------------------ resetSession frame -------------------- *)
\* C21: resetSession leaves the client with a session whose id no session,
\* subscription, pipeline or stored document had before, with the default
\* title, the GENERAL mode, an empty document and an empty transcript, and
\* the step changes no stored document and issues no write.
ResetIsFresh ==
  [][\A c \in Clients :
       resets'[c] # resets[c] =>
         /\ session'[c] = [id |-> session'[c].id, title |-> DefaultTitle, messages |-> <<>>,
                           currentMode |-> "GENERAL", canvasContent |-> ""]
         /\ session'[c].id \notin {session[d].id : d \in Clients} \cup {sub[d].sid : d \in Clients}
                                 \cup {sid \in SessionIds : store[sid].exists}
                                 \cup UNION {{p.sid : p \in pipes[d]} : d \in Clients}
         /\ store' = store /\ writes' = writes]_vars

\* a reset made on a session whose stored transcript is not empty: the
\* document of the old id still holds it
ResetKeepsOldDocument ==
  \E c \in Clients :
    /\ resets[c] = 1 /\ session[c] = NewSession(<<c, 1>>)
    /\ store[InitialSid(c)].messages # <<>>
    /\ ~store[session[c].id].exists

(* ------------------------------ commutation --------------------------- *)
\* C22: a transcript append of handleSendMessage and the application of a
\* queued snapshot that another client's switchMode write caused give the
\* same session in either order.
AppendCommutesWithRemoteSwitch ==
  \A c \in Clients : \A i \in 1..Len(inbox[c]) :
    LET note == inbox[c][i]
        userMessage == Message(<<c, sends[c] + 1, "u">>, "user", <<"h", "i">>, session[c].id, "")
        appended == [session[c] EXCEPT !.messages = Append(@, userMessage)]
        patched == Patch(session[c], note.doc)
    IN  /\ note.doc.exists
        /\ \E d \in Clients \ {c} : note.by = d /\ \E op \in modeOps[d] : op.ok /\ op.w = note.w
        => Patch(appended, note.doc) = [patched EXCEPT !.messages = Append(@, userMessage)]

(* ------------------------------ optional fields ----------------------- *)
\* snapshot data that lacks some of the four fields
PartialInputs ==
  { [f \in fields |-> data[f]] :
      fields \in SUBSET {"title", "currentMode", "canvasContent", "messages"},
      data \in {d \in PatchInputs : d.title # "" /\ d.canvasContent # ""} }

\* C23: applying a snapshot leaves every field of the session that the
\* snapshot's data does not have as it was.
AbsentFieldsKept ==
  \A c \in Clients : \A data \in PartialInputs :
    LET next == Patch(session[c], data)
    IN  /\ "title" \notin DOMAIN data => next.title = session[c].title
        /\ "currentMode" \notin DOMAIN data => next.currentMode = session[c].currentMode
        /\ "canvasContent" \notin DOMAIN data => next.canvasContent = session[c].canvasContent
        /\ "messages" \notin DOMAIN data => next.messages = session[c].messages

(* ------------------------------ feedback ------------------------------ *)
\* C24: the onSnapshot callback, whether it applies or discards the snapshot
\* of an existing document, issues no write, queues no snapshot, starts no
\* pipeline, mode write, canvas write or timer: every such step shortens the
\* queues.  A write of a client that belongs to no pipeline, mode write or
\* canvas write is the seed of a document that the snapshot at the head of
\* its queue reports missing, and no snapshot left in its queue does.
NoFeedback ==
  [][\A c \in Clients :
       /\ /\ user[c] /\ user'[c] /\ resets'[c] = resets[c]
          /\ inbox[c] # <<>> /\ Head(inbox[c]).doc.exists /\ inbox'[c] = Tail(inbox[c])
          => /\ store' = store /\ writes' = writes
             /\ \A d \in Clients \ {c} : inbox'[d] = inbox[d]
             /\ pipes' = pipes /\ modeOps' = modeOps /\ canvasOps' = canvasOps
             /\ \A t \in timers'[c] : \E u \in timers[c] : u.val = t.val /\ u.left = t.left
       /\ /\ writes'[c] # writes[c]
          /\ pipes'[c] = pipes[c] /\ modeOps'[c] = modeOps[c] /\ canvasOps'[c] = canvasOps[c]
          => /\ inbox[c] # <<>> /\ ~Head(inbox[c]).doc.exists
             /\ store'[sub[c].sid] = SeedDoc(sub[c])
             /\ \A i \in 1..Len(inbox'[c]) : inbox'[c][i].doc.exists]_vars

\* two clients of one session have exchanged writes and snapshots and
\* nothing is left: no queued snapshot, no pending write, no timer
ExchangeHasStopped ==
  /\ \A c \in Clients : /\ user[c] /\ session[c].id = InitialSid(1) /\ writes[c] > 0
                         /\ inbox[c] = <<>> /\ pipes[c] = {} /\ modeOps[c] = {}
                         /\ canvasOps[c] = {} /\ timers[c] = {}
  /\ \E c \in Clients : lastNote[c].kind = "applied" /\ lastNote[c].by \notin {0, c}

(* ------------------------------ subscription -------------------------- *)
\* C25: a signed-in client's one subscription is for the id of its session,
\* a client that is not signed in has none, and every snapshot queued for a
\* client's onSnapshot callback is a snapshot of the document of its
\* session's id.
SubscriptionFollowsSession ==
  \A c \in Clients :
    /\ user[c] => sub[c].sid = session[c].id
    /\ ~user[c] => sub[c] = NoSub /\ inbox[c] = <<>>
    /\ \A i \in 1..Len(inbox[c]) : inbox[c][i].sid = session[c].id

\* after a reset, a pipeline of the old session has written to the old
\* document while the client listens to the new one
OldSessionWrittenAfterReset ==
  \E c \in Clients : \E p \in pipes[c] :
    /\ resets[c] > 0 /\ p.sid # session[c].id /\ sub[c].sid = session[c].id
    /\ p.pc \in {"finalWrite", "imageWrite", "errWrite"} /\ p.wr.ok /\ p.wr.stale
    /\ store[session[c].id].exists

(* ------------------------------ settling ------------------------------ *)
\* C26: a switchMode call is over when its local patch is applied: the step
\* that applies the patch also sets the view of the new mode and leaves no
\* call waiting for updateDoc; and the step of handleSendMessage that appends
\* the user message leaves no call waiting for the write of that message.
SettlesWithLocalUpdate ==
  [][\A c \in Clients :
       /\ switches'[c] # switches[c] =>
             /\ modeOps'[c] = modeOps[c]
             /\ viewMode'[c] = ViewOf(session'[c].currentMode)
       /\ sends'[c] # sends[c] =>
             \A p \in pipes'[c] \ pipes[c] : p.pc # "userWrite"]_vars

(* ------------------------------ failed canvas write ------------------- *)
\* C27: when the updateDoc of syncCanvasToCloud rejects and no other canvas
\* write of the client is pending, the echo flag is not set once the call
\* has ended.
FlagClearedOnFailure ==
  [][\A c \in Clients : \A op \in canvasOps[c] :
       ~op.ok /\ canvasOps'[c] = {} => ~skipNextSync'[c]]_vars

(* ------------------------------ the flag across sessions -------------- *)
\* C28: a snapshot of an existing document that is delivered while the flag
\* is set by a write to another session id than the client's is applied.
FlagIsPerSession ==
  [][\A c \in Clients :
       /\ user[c] /\ resets'[c] = resets[c] /\ inbox[c] # <<>> /\ inbox'[c] = Tail(inbox[c])
       /\ Head(inbox[c]).doc.exists
       /\ skipNextSync[c] /\ armSid[c] # session[c].id
       => session'[c] = Patch(session[c], Head(inbox[c]).doc)]_vars

(* ------------------------------ one pipeline -------------------------- *)
\* C29: a client never has two handleSendMessage calls that both have not
\* finished their generation.
OnePipelineAtATime ==
  \A c \in Clients : \A p, q \in pipes[c] :
    /\ p.pc \in {"userWrite", "image", "stream", "chunks"}
    /\ q.pc \in {"userWrite", "image", "stream", "chunks"}
    => p.n = q.n

(* ------------------------------ isLoading ----------------------------- *)
\* C30: isLoading is true only while a handleSendMessage call of the client
\* is past its first write and before the end of its finally block, and
\* whenever it is true it becomes false again.
LoadingEnds ==
  /\ [](\A c \in Clients : isLoading[c] => \E p \in pipes[c] : p.pc # "userWrite")
  /\ \A c \in Clients : isLoading[c] ~> ~isLoading[c]

\* the generation has failed and the write of the error message has been
\* rejected, with isLoading still true
ErrorWriteRejectedWhileLoading ==
  \E c \in Clients : \E p \in pipes[c] :
    p.pc = "errWrite" /\ p.gen /\ ~p.wr.ok /\ isLoading[c]

====
